---- MODULE Spec2Model ----
(***************************************************************************)
(* img2pdf: directories of photographed pages are turned into one PDF per  *)
(* directory.  The model covers the four script variants of the            *)
(* repository (img2pdf_v0.41.py, img2pdf.py, img2pdf_v0.1.py,              *)
(* img2pdf_parallel.py): natural ordering of file names, the per-image     *)
(* orientation cascade, the write-to-temp-then-rename assembler, the       *)
(* optional PDF/A conversion and the directory fan-out scheduler.          *)
(***************************************************************************)
EXTENDS Integers, Sequences, FiniteSets, TLC

(***************************************************************************)
(* Bounds of the model.                                                    *)
(***************************************************************************)
\* longest file-name stem drawn for the ordering checks
MaxStem == 3
\* most images one directory lists in the assembler checks
MaxImages == 2
\* number of distinct random suffixes tempfile.mkstemp can draw
MaxSuffix == 2
\* size of the worker pool, min(os.cpu_count(), 8) in the code
PoolSize == 2
\* significant bits of a float (the model's precision)
FloatBits == 10
\* largest pixel width or height of the layout checks, besides the worked example's
MaxPixels == 21

(***************************************************************************)
(* Script variants.                                                        *)
(***************************************************************************)
V041 == "img2pdf_v0.41.py"
VBase == "img2pdf.py"
V01 == "img2pdf_v0.1.py"
VPar == "img2pdf_parallel.py"
Variants == {V041, VBase, V01, VPar}
\* the variants that dispatch work units to a ProcessPoolExecutor
PoolVariants == {V041, VPar}

(***************************************************************************)
(* File names are sequences of characters.  CharOrder lists the characters *)
(* the model uses in code-point order, which is all that Python's string   *)
(* comparison reads.                                                       *)
(***************************************************************************)
CharOrder ==
  << ".", "0", "1", "2", "A", "G", "I", "J", "M", "P",
     "a", "b", "e", "g", "i", "j", "m", "p", "t", "x" >>

Ord(c) == CHOOSE i \in 1..Len(CharOrder) : CharOrder[i] = c

Digits == {"0", "1", "2"}

DigitVal(c) == CASE c = "0" -> 0 [] c = "1" -> 1 [] c = "2" -> 2

\* str.lower() on one character
LowerChar(c) ==
  CASE c = "A" -> "a" [] c = "G" -> "g" [] c = "I" -> "i" [] c = "J" -> "j"
    [] c = "M" -> "m" [] c = "P" -> "p" [] OTHER -> c

\* str.lower()
Lower(s) == [i \in 1..Len(s) |-> LowerChar(s[i])]

\* Python's < on two strings: code-point lexicographic, a proper prefix first
RECURSIVE StrLess(_, _)
StrLess(s, t) ==
  IF t = << >> THEN FALSE
  ELSE IF s = << >> THEN TRUE
  ELSE IF s[1] # t[1] THEN Ord(s[1]) < Ord(t[1])
  ELSE StrLess(Tail(s), Tail(t))

\* str.endswith
EndsWith(s, suf) ==
  /\ Len(s) >= Len(suf)
  /\ SubSeq(s, Len(s) - Len(suf) + 1, Len(s)) = suf

ExtJpg == << ".", "j", "p", "g" >>
ExtJpeg == << ".", "j", "p", "e", "g" >>

\* an extension test that does not fold case
CaseSensitiveImageName(name) == EndsWith(name, ExtJpg) \/ EndsWith(name, ExtJpeg)

\* fname.lower().endswith((".jpg", ".jpeg"))
IsImageName(name) ==
  EndsWith(Lower(name), ExtJpg) \/ EndsWith(Lower(name), ExtJpeg)

(***************************************************************************)
(* natural_key: re.split(r"(\d+)", s) cuts the name into alternating       *)
(* non-digit and digit runs, starting and ending with a (possibly empty)   *)
(* non-digit run; digit runs become integers, the others are lowercased.   *)
(* A key part is a record: isNum tells an integer from a text part.        *)
(***************************************************************************)
RECURSIVE DigitRunLen(_)
DigitRunLen(s) ==
  IF s = << >> \/ s[1] \notin Digits THEN 0 ELSE 1 + DigitRunLen(Tail(s))

RECURSIVE TextRunLen(_)
TextRunLen(s) ==
  IF s = << >> \/ s[1] \in Digits THEN 0 ELSE 1 + TextRunLen(Tail(s))

\* int(p) for a run of decimal digits
RECURSIVE IntOf(_)
IntOf(s) ==
  IF s = << >> THEN 0 ELSE 10 * IntOf(SubSeq(s, 1, Len(s) - 1)) + DigitVal(s[Len(s)])

TextPart(s) == [isNum |-> FALSE, n |-> 0, s |-> Lower(s)]
NumPart(s) == [isNum |-> TRUE, n |-> IntOf(s), s |-> << >>]

RECURSIVE SplitParts(_)
\* s starts where a non-digit run (maybe empty) is expected
SplitParts(s) ==
  LET t == TextRunLen(s)
      rest == SubSeq(s, t + 1, Len(s))
      d == DigitRunLen(rest)
  IN  IF rest = << >>
      THEN << TextPart(SubSeq(s, 1, t)) >>
      ELSE << TextPart(SubSeq(s, 1, t)), NumPart(SubSeq(rest, 1, d)) >>
           \o SplitParts(SubSeq(rest, d + 1, Len(rest)))

natural_key(s) == SplitParts(s)

\* Python's < on two key parts of the same kind
PartLess(p, q) == IF p.isNum THEN p.n < q.n ELSE StrLess(p.s, q.s)

\* Python's < on two lists: the first differing position decides, else length
RECURSIVE KeyLess(_, _)
KeyLess(k, l) ==
  IF l = << >> THEN FALSE
  ELSE IF k = << >> THEN TRUE
  ELSE IF k[1] # l[1] THEN PartLess(k[1], l[1])
  ELSE KeyLess(Tail(k), Tail(l))

\* the comparison files.sort(key=natural_key) makes between two names
NaturalLess(a, b) == KeyLess(natural_key(a), natural_key(b))

\* the comparison imgs.sort() makes between two paths of one directory
PlainLess(a, b) == StrLess(a, b)

\* the comparison the variant's gather_image_files_in_dir sorts by
SortLess(v, a, b) == IF v = V041 THEN NaturalLess(a, b) ELSE PlainLess(a, b)

\* list.sort is stable: an element goes before the first strictly greater one
RECURSIVE InsertStable(_, _, _)
InsertStable(v, x, sorted) ==
  IF sorted = << >> THEN << x >>
  ELSE IF SortLess(v, x, Head(sorted)) THEN << x >> \o sorted
  ELSE << Head(sorted) >> \o InsertStable(v, x, Tail(sorted))

RECURSIVE StableSort(_, _)
StableSort(v, s) ==
  IF s = << >> THEN << >>
  ELSE InsertStable(v, s[Len(s)], StableSort(v, SubSeq(s, 1, Len(s) - 1)))

\* the entries of a listing that are image files, in listing order
RECURSIVE FilterImages(_)
FilterImages(s) ==
  IF s = << >> THEN << >>
  ELSE (IF IsImageName(Head(s)) THEN << Head(s) >> ELSE << >>)
       \o FilterImages(Tail(s))

\* gather_image_files_in_dir of variant v on a directory whose os.listdir
\* returns `names` in that order
gather_image_files_in_dir(v, names) == StableSort(v, FilterImages(names))

(***************************************************************************)
(* The orientation cascade of one image.                                   *)
(***************************************************************************)
\* Python's None and a definite value, for a detector's return
None == << >>
Some(x) == << x >>

\* EXIF orientation tags the environment offers; 0 stands for "no EXIF"
ExifTagSet == {0, 1, 3, 6, 8}

\* correct_exif_orientation: the clockwise turn applied to the stored pixels.
\* PIL's rotate is counter-clockwise: rotate(270) turns the content 90 clockwise.
ExifAngle(tag) ==
  CASE tag = 3 -> 180
    [] tag = 6 -> 90
    [] tag = 8 -> 270
    [] OTHER -> 0

\* median line angles the vision backend may measure, in (-90, 90]
Medians == {-60, -30, 0, 29, 30, 31, 90}

\* what the vision backend may find in one image
VisionEnvs ==
  {[k |-> x, m |-> 0] : x \in {"undecodable", "nolines", "error"}}
    \cup {[k |-> "median", m |-> a] : a \in Medians}

Abs(x) == IF x < 0 THEN -x ELSE x

\* a rule whose quarter turns start at 30 degrees
VisionDecisionFrom30(m) ==
  IF Abs(m) < 30 THEN 0
  ELSE IF m >= 30 THEN 90
  ELSE 270

\* the decision rule of detect_rotation_opencv on the median angle
VisionDecision(m) ==
  IF Abs(m) < 30 THEN 0
  ELSE IF m > 30 THEN 90
  ELSE IF m < -30 THEN 270
  ELSE 0

\* a vision stage that takes "no rotation" for no answer
AbstainsOnZero(cv, vis) ==
  IF cv /\ vis.k = "median" /\ VisionDecision(vis.m) # 0
  THEN Some(VisionDecision(vis.m))
  ELSE None

\* detect_rotation_opencv: None when cv2 is missing, the image does not
\* decode, no line is found or anything raises
detect_rotation_opencv(cv, vis) ==
  IF ~cv THEN None
  ELSE IF vis.k = "median" THEN Some(VisionDecision(vis.m))
  ELSE None

\* integers a "Rotate:" line of the OSD report may carry
OcrInts == {-90, 0, 45, 90, 180, 270, 360, 405, 450}

\* what the OCR service may answer: it raises, its report has no Rotate
\* line, the Rotate value does not parse as an integer, or it parses
OcrEnvs ==
  {[k |-> x, n |-> 0] : x \in {"raise", "noline", "garbled"}}
    \cup {[k |-> "int", n |-> a] : a \in OcrInts}

\* the integer the service reported, if any
OcrReported(ocr) == IF ocr.k = "int" THEN Some(ocr.n) ELSE None

\* detect_rotation_ocr of img2pdf_v0.41.py
detect_rotation_ocr(tess, ocr) ==
  IF ~tess THEN 0
  ELSE IF ocr.k = "int" THEN ocr.n % 360
  ELSE 0

\* detect_ocr_rotation of the three older variants
detect_ocr_rotation(ocr) == IF ocr.k = "int" THEN ocr.n ELSE 0

\* the detector's value taken as it comes
RotUnchecked(rot) == rot

\* "if rot not in (0, 90, 180, 270): rot = 0"
NormalizeRot(rot) == IF rot \in {0, 90, 180, 270} THEN rot ELSE 0

\* The pixels a detector reads, as the clockwise turn they carry relative to
\* the stored file: img2pdf_v0.41.py hands the detectors img_path, and each
\* decodes the file again; the older variants hand over the corrected im.
DetectorPixels(v, tag) == IF v = V041 THEN 0 ELSE ExifAngle(tag)

\* The pixels cv2.imdecode(data, cv2.IMREAD_GRAYSCALE) yields from the file:
\* whether the decoder itself honours the orientation tag depends on the
\* OpenCV build (turns); Image.open in detect_rotation_ocr never does.
DecodedPixels(tag, turns) == IF turns THEN ExifAngle(tag) ELSE 0

(***************************************************************************)
(* Page layout: the floating-point arithmetic of the loop body.  A float   *)
(* is an integer count of Unit-ths; it carries FloatBits significant bits  *)
(* (53 in CPython), and every operation rounds its exact result to the     *)
(* nearest float, ties to even.                                            *)
(***************************************************************************)
FracBits == FloatBits + 2

RECURSIVE Pow2(_)
Pow2(n) == IF n = 0 THEN 1 ELSE 2 * Pow2(n - 1)

Unit == Pow2(FracBits)
\* one more than the largest significand
Significands == Pow2(FloatBits)

\* the spacing of the floats around a value of q units
RECURSIVE Ulp(_, _)
Ulp(q, u) == IF q < u * Significands THEN u ELSE Ulp(q, 2 * u)

\* n / d (n >= 0, d > 0) rounded to the nearest float, ties to even
RoundPos(n, d) ==
  CHOOSE f \in
    {LET g == d * u
         m == n \div g
         r == n - m * g
     IN  IF 2 * r < g \/ (2 * r = g /\ m % 2 = 0) THEN m * u ELSE (m + 1) * u :
     u \in {Ulp(n \div d, 1)}} : TRUE

\* n / d (d > 0) rounded to the nearest float; the bound variables hold the
\* operands, so that each is evaluated once
Round(n, d) ==
  CHOOSE r \in {IF v < 0 THEN 0 - RoundPos(0 - v, k) ELSE RoundPos(v, k) :
                 v \in {n}, k \in {d}} : TRUE

\* the operations of the layout: float / int, int * float, float - float, float / 2
FDivInt(a, k) == Round(a, k)
FMulInt(k, a) == Round(k * a, 1)
FSub(a, b) == Round(a - b, 1)
FHalf(a) == Round(a, 2)

\* the larger instead of the smaller
FMax(a, b) == IF b < a THEN a ELSE b
\* Python's min of two floats
FMin(a, b) == IF b < a THEN b ELSE a

\* reportlab's A4 in points: 210 mm by 297 mm at 72 / 25.4 points per mm
A4 == << Round(210 * 360 * Unit, 127), Round(297 * 360 * Unit, 127) >>
landscape(size) == IF size[1] < size[2] THEN << size[2], size[1] >> ELSE size
portrait(size) == IF size[1] < size[2] THEN size ELSE << size[2], size[1] >>

\* a rotation that keeps the canvas
NotExpanded(size, angle) == size

\* PIL's size after rotate(angle, expand=True)
Rotated(size, angle) ==
  IF angle \in {90, 270} THEN << size[2], size[1] >> ELSE size

\* the page chosen for a w x h image and the rectangle handed to drawImage
PagePlan(w, h) ==
  LET page_size == IF w > h THEN landscape(A4) ELSE portrait(A4)
      page_w == page_size[1]
      page_h == page_size[2]
  IN  CHOOSE p \in
        {LET new_w == FMulInt(w, scale)
             new_h == FMulInt(h, scale)
         IN  [ w |-> w, h |-> h, landscape |-> w > h,
               page_w |-> page_w, page_h |-> page_h, scale |-> scale,
               new_w |-> new_w, new_h |-> new_h,
               x |-> FHalf(FSub(page_w, new_w)),
               y |-> FHalf(FSub(page_h, new_h)) ] :
         scale \in {FMin(FDivInt(page_w, w), FDivInt(page_h, h))}} : TRUE

\* the pixel sizes of the worked example, and the size of an unread image
WideSize == << 1000, 700 >>
TallSize == << 700, 1000 >>
NoSize == << 0, 0 >>

\* no page was laid out
NoPlan ==
  [ w |-> 0, h |-> 0, landscape |-> FALSE, page_w |-> 0, page_h |-> 0,
    scale |-> 0, new_w |-> 0, new_h |-> 0, x |-> 0, y |-> 0 ]

\* The loop body of make_pdf_from_images on one image, given what the
\* environment does (e): the record of what was read, decided and applied.
PerImage(v, cv, tess, img, e) ==
  LET visRan == e.open /\ v = V041 /\ cv
      visOut == IF visRan THEN detect_rotation_opencv(cv, e.vis) ELSE None
      ocrRan == e.open /\ (IF v = V041 THEN visOut = None /\ tess ELSE TRUE)
      raw == IF ~e.open THEN 0
             ELSE IF v = V041
                  THEN (IF visOut # None THEN visOut[1]
                        ELSE detect_rotation_ocr(tess, e.ocr))
                  ELSE detect_ocr_rotation(e.ocr)
      rot == NormalizeRot(raw)
  IN  [ img |-> img,
        ok |-> e.open /\ e.late,
        opened |-> e.open,
        tag |-> e.tag,
        size |-> e.size,
        vis |-> e.vis,
        visPix |-> IF visRan THEN Some(DecodedPixels(e.tag, e.cvTurns)) ELSE None,
        visOut |-> visOut,
        ocrPix |-> IF ocrRan THEN Some(DetectorPixels(v, e.tag)) ELSE None,
        ocrVal |-> IF ocrRan THEN OcrReported(e.ocr) ELSE None,
        rot |-> rot,
        total |-> (ExifAngle(e.tag) + rot) % 360,
        plan |-> IF e.open /\ e.late
                 THEN LET size == Rotated(Rotated(e.size, ExifAngle(e.tag)), rot)
                      IN  PagePlan(size[1], size[2])
                 ELSE NoPlan ]

\* before any image was processed
NoImage ==
  [ img |-> << >>, ok |-> FALSE, opened |-> FALSE, tag |-> 0, size |-> NoSize,
    vis |-> [k |-> "nolines", m |-> 0], visPix |-> None,
    visOut |-> None, ocrPix |-> None, ocrVal |-> None, rot |-> 0, total |-> 0,
    plan |-> NoPlan ]

(***************************************************************************)
(* Directories, paths and the file system.                                 *)
(***************************************************************************)
\* the source directories, in os.walk order: d2 lies below d1
Dirs == {"d1", "d2", "d3"}
WalkOrder == << "d1", "d2", "d3" >>

\* os.path.basename(os.path.normpath(current_dir)): d1 and d2 share a name
Basename(d) == IF d = "d3" THEN "b" ELSE "a"

VARIABLES
  variant,    \* which script runs
  srcIsDir,   \* whether os.path.isdir holds of the source argument
  outRoot,    \* whether an output directory was given
  doPdfa,     \* --pdfa (img2pdf_v0.41.py only)
  cv2Avail,   \* "import cv2" succeeded (img2pdf_v0.41.py only)
  tessAvail,  \* pytesseract and the Tesseract binary are usable
  listing,    \* os.listdir of each source directory, in listing order
  nonFiles,   \* the listed names for which os.path.isfile is false
  hadPrior,   \* whether the output files existed before the run
  srcTags,    \* the EXIF orientation tags found among the source images
  srcSizes,   \* the pixel widths and the pixel heights found among the source images
  srcFindings, \* what the vision backend can find in the source images
  faults,     \* what the environment of this run may refuse or break
  fs,         \* content of every output-side path
  schedPc,    \* position of the run: init, rejected, running, done, aborted, killed
  tasks,      \* the directories dispatched, in submission order
  yielded,    \* futures as_completed has handed to the collecting loop
  completed,  \* the completed counter of the collecting loop
  reports,    \* what the collecting loop logged for each directory
  pc,         \* position of each directory's worker
  images,     \* the worker's gathered image list
  idx,        \* index of the next image of the loop
  pages,      \* pages sealed on the canvas so far (image names)
  okImgs,     \* the images whose loop pass ended without an error
  temp,       \* temp_path of make_pdf_from_images
  pdfaTmp,    \* tmp_pdfa of process_one_dir
  mkRet,      \* how make_pdf_from_images ended
  outcome,    \* how process_one_dir ended
  last        \* what each worker's most recent pass of the image loop did

cfgVars ==
  << variant, srcIsDir, outRoot, doPdfa, cv2Avail, tessAvail, listing, nonFiles,
     hadPrior, srcTags, srcSizes, srcFindings, faults >>

\* The faults of the environment: "list": os.listdir raises in the worker;
\* "mkstemp": tempfile.mkstemp raises; "open": Image.open raises; "late":
\* colour normalisation, JPEG encoding or drawing raises; "save": c.save()
\* raises; "rename_perm", "rename_os": the publish rename raises
\* PermissionError or another OSError; "remove": os.remove raises; "nogs",
\* "gserr", "raise": the ways the Ghostscript call fails; "pdfa_replace":
\* the second rename raises; "kill": the process tree is killed.
FaultKinds ==
  {"list", "mkstemp", "open", "late", "save", "rename_perm", "rename_os",
   "remove", "nogs", "gserr", "raise", "pdfa_replace", "kill"}

\* the results ("it worked") a call subject to fault k may have
MayFail(k) == IF k \in faults THEN BOOLEAN ELSE {TRUE}
schedVars == << schedPc, tasks, yielded, completed, reports >>
workVars == << pc, images, idx, pages, okImgs, temp, pdfaTmp, mkRet, outcome >>
vars == << cfgVars, schedVars, workVars, fs, last >>

\* the directory the unit's output goes to: beside the sources, flat into
\* the output root, or (img2pdf.py) mirrored below the output root
OutDir(d) ==
  IF ~outRoot THEN << "src", d >>
  ELSE IF variant = VBase THEN << "out", d >>
  ELSE << "out" >>

\* out_pdf: <directory-basename>.pdf in the output directory
TargetOf(d) == [dir |-> OutDir(d), base |-> Basename(d), kind |-> "pdf", r |-> 0]
\* mkstemp(prefix=base_name + "_", suffix=".pdf", dir=out_dir) with suffix r
TempPath(d, r) == [dir |-> OutDir(d), base |-> Basename(d), kind |-> "tmp", r |-> r]
\* mkstemp(prefix=dir_name + "_pdfa_", suffix=".pdf", dir=dirname(out_pdf))
PdfaPath(d, r) == [dir |-> OutDir(d), base |-> Basename(d), kind |-> "pdfa", r |-> r]
NoPath == [dir |-> << >>, base |-> "-", kind |-> "none", r |-> 0]

Suffixes == 1..MaxSuffix

PathsOfDir(d) ==
  {TargetOf(d)} \cup {TempPath(d, r) : r \in Suffixes}
    \cup {PdfaPath(d, r) : r \in Suffixes}
Paths == UNION {PathsOfDir(d) : d \in Dirs}
Targets == {TargetOf(d) : d \in Dirs}

\* file contents
Absent == [kind |-> "absent", unit |-> "-", pages |-> << >>, pdfa |-> FALSE]
EmptyFile == [kind |-> "empty", unit |-> "-", pages |-> << >>, pdfa |-> FALSE]
Partial == [kind |-> "partial", unit |-> "-", pages |-> << >>, pdfa |-> FALSE]
Prior == [kind |-> "prior", unit |-> "-", pages |-> << >>, pdfa |-> FALSE]
Doc(d, pgs) == [kind |-> "doc", unit |-> d, pages |-> pgs, pdfa |-> FALSE]
\* a converter that stops halfway and still reports success
GsTruncates(f) == [kind |-> "partial", unit |-> "-", pages |-> << >>, pdfa |-> TRUE]

\* Ghostscript's output for a complete input document
PdfaOf(f) == [f EXCEPT !.pdfa = TRUE]

Exists(p) == p \in DOMAIN fs /\ fs[p].kind # "absent"

\* how make_pdf_from_images ended.  ret: the value returned; cause: "none"
\* or what failed ("image", "save", "rename_perm", "rename_os"); loggedTemp:
\* the error message names temp_path; rmFailed: os.remove was tried and
\* raised (the handler swallows that)
MkPending ==
  [done |-> FALSE, ret |-> "-", cause |-> "-", loggedTemp |-> FALSE, rmFailed |-> FALSE]
MkEnd(ret, cause, logged, rmFailed) ==
  [done |-> TRUE, ret |-> ret, cause |-> cause, loggedTemp |-> logged,
   rmFailed |-> rmFailed]

\* how process_one_dir ended
NoOutcome == [state |-> "none", ok |-> FALSE, reason |-> "-"]
Returned(ok, reason) == [state |-> "returned", ok |-> ok, reason |-> reason]
Raised == [state |-> "raised", ok |-> FALSE, reason |-> "exception"]

NoReport == [kind |-> "none", reason |-> "-"]

(***************************************************************************)
(* Initial states.                                                         *)
(***************************************************************************)
\* sequences of at most n distinct elements of S
Listings(S, n) ==
  UNION {{q \in [1..k -> S] : \A i, j \in 1..k : i # j => q[i] # q[j]} : k \in 0..n}

Jpg(stem) == stem \o ExtJpg

\* the file names of the assembler and scheduler checks
PageNames == {Jpg(<< "1" >>), Jpg(<< "2" >>), Jpg(<< "1", "0" >>)}

\* images without lines and images whose lines stand upright
FewFindings ==
  {v \in VisionEnvs : v.k = "nolines" \/ (v.k = "median" /\ v.m = 90)}

\* state of the run before main() has discovered anything
InitRun ==
  /\ fs = [p \in Paths |-> IF p \in Targets /\ hadPrior THEN Prior ELSE Absent]
  /\ schedPc = "init"
  /\ tasks = << >>
  /\ yielded = {}
  /\ completed = 0
  /\ reports = [d \in Dirs |-> NoReport]
  /\ pc = [d \in Dirs |-> "idle"]
  /\ images = [d \in Dirs |-> << >>]
  /\ idx = [d \in Dirs |-> 1]
  /\ pages = [d \in Dirs |-> << >>]
  /\ okImgs = [d \in Dirs |-> {}]
  /\ temp = [d \in Dirs |-> NoPath]
  /\ pdfaTmp = [d \in Dirs |-> NoPath]
  /\ mkRet = [d \in Dirs |-> MkPending]
  /\ outcome = [d \in Dirs |-> NoOutcome]
  /\ last = [d \in Dirs |-> NoImage]

\* one directory with up to MaxImages images, written beside its sources,
\* under every script and every other option
Init ==
  /\ variant \in Variants
  /\ outRoot = FALSE
  /\ doPdfa \in (IF variant = V041 THEN BOOLEAN ELSE {FALSE})
  /\ cv2Avail \in (IF variant = V041 THEN BOOLEAN ELSE {FALSE})
  /\ tessAvail \in BOOLEAN
  /\ \E q \in Listings(PageNames, MaxImages) :
       listing = [d \in Dirs |-> IF d = "d1" THEN q ELSE << >>]
  /\ nonFiles = [d \in Dirs |-> {}]
  /\ hadPrior \in BOOLEAN
  /\ srcIsDir \in BOOLEAN
  /\ srcTags = ExifTagSet
  /\ srcSizes = << {WideSize[1]}, {WideSize[2]} >>
  /\ srcFindings = FewFindings
  /\ faults = FaultKinds
  /\ InitRun

\* the pool scripts on any set of single-image directories, with or without
\* an output root, no detector installed, untagged images; a worker may
\* fail to list its directory, and the target may be locked
InitPool ==
  /\ variant \in PoolVariants
  /\ outRoot \in BOOLEAN
  /\ doPdfa \in (IF variant = V041 THEN BOOLEAN ELSE {FALSE})
  /\ cv2Avail = FALSE
  /\ tessAvail = FALSE
  /\ \E S \in SUBSET Dirs :
       listing = [d \in Dirs |-> IF d \in S THEN << Jpg(<< "1" >>) >> ELSE << >>]
  /\ nonFiles = [d \in Dirs |-> {}]
  /\ hadPrior = FALSE
  /\ srcIsDir = TRUE
  /\ srcTags = {0}
  /\ srcSizes = << {WideSize[1]}, {WideSize[2]} >>
  /\ srcFindings = FewFindings
  /\ faults = {"list", "rename_perm"}
  /\ InitRun

\* all sequences over S of length 1..n
Strings(S, n) == UNION {[1..k -> S] : k \in 1..n}

\* the file names of the ordering checks: every stem of up to MaxStem
\* characters over a letter and two digits, and the img<N>.jpg examples
SortStems == Strings({"0", "1", "a"}, MaxStem)
ImgNames ==
  {Jpg(<< "i", "m", "g", "1" >>), Jpg(<< "i", "m", "g", "2" >>),
   Jpg(<< "i", "m", "g", "1", "0" >>)}
TieNames ==
  {Jpg(<< "I", "M", "G", "1" >>), Jpg(<< "i", "m", "g", "0", "1" >>)}
SortNames == {Jpg(t) : t \in SortStems} \cup ImgNames \cup TieNames
SortListings ==
  {q \in [1..2 -> SortNames] : q[1] # q[2]}
    \cup Listings(ImgNames, Cardinality(ImgNames))

\* every script on one directory, listed by the filesystem in any order
InitSort ==
  /\ variant \in Variants
  /\ outRoot = FALSE
  /\ doPdfa = FALSE
  /\ cv2Avail = FALSE
  /\ tessAvail = FALSE
  /\ \E q \in SortListings :
       listing = [d \in Dirs |-> IF d = "d1" THEN q ELSE << >>]
  /\ nonFiles = [d \in Dirs |-> {}]
  /\ hadPrior = FALSE
  /\ srcIsDir = TRUE
  /\ srcTags = {0}
  /\ srcSizes = << {WideSize[1]}, {WideSize[2]} >>
  /\ srcFindings = FewFindings
  /\ faults = {}
  /\ InitRun

\* what a directory of the discovery runs may hold: nothing, a text file,
\* an image with an upper-case or mixed-case extension, a name that ends in
\* "jpg" without the dot, or a subdirectory named like an image
DirContents ==
  { [names |-> << >>, dirs |-> {}],
    [names |-> << << "a", ".", "t", "x", "t" >> >>, dirs |-> {}],
    [names |-> << << "1", ".", "J", "P", "G" >> >>, dirs |-> {}],
    [names |-> << << "a", ".", "t", "x", "t" >>, << "1", ".", "J", "p", "e", "g" >> >>,
     dirs |-> {}],
    [names |-> << << "1", "j", "p", "g" >> >>, dirs |-> {}],
    [names |-> << Jpg(<< "1" >>) >>, dirs |-> {Jpg(<< "1" >>)}] }

\* every script on any three such directories, nothing failing
InitDiscover ==
  /\ variant \in Variants
  /\ outRoot \in BOOLEAN
  /\ doPdfa = FALSE
  /\ cv2Avail = FALSE
  /\ tessAvail = FALSE
  /\ \E c \in [Dirs -> DirContents] :
       /\ listing = [d \in Dirs |-> c[d].names]
       /\ nonFiles = [d \in Dirs |-> c[d].dirs]
  /\ hadPrior = FALSE
  /\ srcIsDir = TRUE
  /\ srcTags = {0}
  /\ srcSizes = << {WideSize[1]}, {WideSize[2]} >>
  /\ srcFindings = FewFindings
  /\ faults = {}
  /\ InitRun

\* img2pdf_v0.41.py on one directory with one image, with or without each
\* detector, for every finding of the vision backend and every answer of
\* the OCR service
InitCascade ==
  /\ variant = V041
  /\ outRoot = FALSE
  /\ doPdfa = FALSE
  /\ cv2Avail \in BOOLEAN
  /\ tessAvail \in BOOLEAN
  /\ listing = [d \in Dirs |-> IF d = "d1" THEN << Jpg(<< "1" >>) >> ELSE << >>]
  /\ nonFiles = [d \in Dirs |-> {}]
  /\ hadPrior = FALSE
  /\ srcIsDir = TRUE
  /\ srcTags = {0, 6}
  /\ srcSizes = << {WideSize[1]}, {WideSize[2]} >>
  /\ srcFindings = VisionEnvs
  /\ faults = {}
  /\ InitRun

\* the pixel widths and heights of the layout runs
PixelDims == (1..MaxPixels) \cup {WideSize[1], WideSize[2]}

\* the directory of the worked example
LayoutNames == << Jpg(<< "a" >>), Jpg(<< "b" >>) >>

\* every script on a directory of two images of any such size, untagged or
\* tagged 6, with or without OpenCV
InitLayout ==
  /\ variant \in Variants
  /\ outRoot = FALSE
  /\ doPdfa = FALSE
  /\ cv2Avail \in BOOLEAN
  /\ tessAvail = FALSE
  /\ listing = [d \in Dirs |-> IF d = "d1" THEN LayoutNames ELSE << >>]
  /\ nonFiles = [d \in Dirs |-> {}]
  /\ hadPrior = FALSE
  /\ srcIsDir = TRUE
  /\ srcTags = {0, 6}
  /\ srcSizes = << PixelDims, PixelDims >>
  /\ srcFindings = {v \in VisionEnvs : v.k = "median" /\ v.m = 0}
  /\ faults = {}
  /\ InitRun

(***************************************************************************)
(* What the environment may do to one image of the loop.                   *)
(***************************************************************************)
VisIdle == [k |-> "nolines", m |-> 0]
OcrIdle == [k |-> "raise", n |-> 0]

\* the vision findings that matter: none unless the vision stage runs
VisFor == IF variant = V041 /\ cv2Avail THEN srcFindings ELSE {VisIdle}

\* the OCR answers that matter once the vision stage has found vi
OcrFor(vi) ==
  IF variant = V041 /\ detect_rotation_opencv(cv2Avail, vi) # None THEN {OcrIdle}
  ELSE IF tessAvail THEN OcrEnvs
  ELSE {OcrIdle}

\* whether the OpenCV decoder honours the tag matters only when the vision
\* stage runs on a tagged image
TurnsFor(t) ==
  IF variant = V041 /\ cv2Avail /\ ExifAngle(t) # 0 THEN BOOLEAN ELSE {FALSE}

\* open: Image.open succeeds; late: colour normalisation, JPEG encoding and
\* drawing succeed
ImageEnvs ==
  {[open |-> FALSE, late |-> FALSE, tag |-> 0, size |-> NoSize, cvTurns |-> FALSE,
     vis |-> VisIdle, ocr |-> OcrIdle] : o \in MayFail("open") \ {TRUE}}
    \cup UNION {UNION {{[open |-> TRUE, late |-> l, tag |-> t, size |-> sz,
                           cvTurns |-> ct, vis |-> vi, ocr |-> oc] :
                          l \in MayFail("late"), ct \in TurnsFor(t),
                          oc \in OcrFor(vi),
                          sz \in srcSizes[1] \X srcSizes[2]} :
                        vi \in VisFor} :
                  t \in srcTags}

(***************************************************************************)
(* The scheduler: main, process_recursive_parallel (pool variants) and     *)
(* process_root_recursive / process_recursive (sequential variants).       *)
(***************************************************************************)
\* collect_dirs_to_process: the directories that directly hold an image
\* the listed names that pass os.path.isfile, in listing order
RegularFiles(d) == SelectSeq(listing[d], LAMBDA n : n \notin nonFiles[d])

HasImages(d) == FilterImages(RegularFiles(d)) # << >>
collect_dirs_to_process == SelectSeq(WalkOrder, HasImages)

\* tasks = [(d, out_root, do_pdfa) for d in dirs]
TasksOf(dirs) == dirs

SeqRange(q) == {q[i] : i \in DOMAIN q}

Running == {d \in Dirs : pc[d] \notin {"idle", "queued", "finished"}}

\* workers that may run at once: the pool, or the single loop of the
\* sequential scripts
Concurrency == IF variant \in PoolVariants THEN PoolSize ELSE 1

\* the pool hands out tasks in submission order
FirstQueued(d) ==
  \E i \in DOMAIN tasks :
    /\ tasks[i] = d
    /\ pc[d] = "queued"
    /\ \A j \in 1..(i - 1) : pc[tasks[j]] # "queued"

\* main: the source argument is not a directory, sys.exit(2)
Reject ==
  /\ schedPc = "init"
  /\ ~srcIsDir
  /\ schedPc' = "rejected"
  /\ UNCHANGED << cfgVars, tasks, yielded, completed, reports, workVars, fs,
                  last >>

\* the exit status of the process once the run has ended: 0 when main
\* returns, 2 from sys.exit(2), 1 when an exception leaves main
ExitStatus ==
  IF schedPc = "done" THEN Some(0)
  ELSE IF schedPc = "rejected" THEN Some(2)
  ELSE IF schedPc = "aborted" THEN Some(1)
  ELSE None

\* discovery, and the submission of every task
Discover ==
  /\ schedPc = "init"
  /\ srcIsDir
  /\ LET dirs == collect_dirs_to_process
     IN  IF Len(dirs) = 0
         THEN /\ schedPc' = "done"
              /\ UNCHANGED << tasks, pc >>
         ELSE /\ schedPc' = "running"
              /\ tasks' = TasksOf(dirs)
              /\ pc' = [d \in Dirs |->
                          IF d \in SeqRange(TasksOf(dirs)) THEN "queued" ELSE pc[d]]
  /\ UNCHANGED << cfgVars, yielded, completed, reports, images, idx, pages,
                  okImgs, temp, pdfaTmp, mkRet, outcome, fs, last >>

\* an exception leaves process_one_dir: img2pdf_v0.41.py turns it into a
\* failed result, the pool of img2pdf_parallel.py stores it in the future,
\* the sequential scripts let it end the run
EscapeOutcome == IF variant = V041 THEN Returned(FALSE, "exception") ELSE Raised
EscapeSched == IF variant \in PoolVariants THEN schedPc ELSE "aborted"

\* process_one_dir up to the call of make_pdf_from_images
StartWorker(d) ==
  /\ schedPc = "running"
  /\ FirstQueued(d)
  /\ Cardinality(Running) < Concurrency
  /\ \E listOk \in MayFail("list") :
       IF ~listOk
       THEN /\ pc' = [pc EXCEPT ![d] = "finished"]
            /\ outcome' = [outcome EXCEPT ![d] = EscapeOutcome]
            /\ schedPc' = EscapeSched
            /\ UNCHANGED images
       ELSE LET imgs == gather_image_files_in_dir(variant, RegularFiles(d))
            IN  /\ images' = [images EXCEPT ![d] = imgs]
                /\ schedPc' = schedPc
                /\ IF imgs = << >>
                   THEN /\ pc' = [pc EXCEPT ![d] = "finished"]
                        /\ outcome' = [outcome EXCEPT ![d] =
                                         Returned(FALSE, "no_images")]
                   ELSE /\ pc' = [pc EXCEPT ![d] = "mk"]
                        /\ UNCHANGED outcome
  /\ UNCHANGED << cfgVars, tasks, yielded, completed, reports, idx, pages,
                  okImgs, temp, pdfaTmp, mkRet, fs, last >>

(***************************************************************************)
(* make_pdf_from_images.                                                   *)
(***************************************************************************)
\* a canvas opened on the output path itself, with no temporary file
CanvasOnTarget(d) == TargetOf(d)

\* the file the canvas is written to: canvas.Canvas(temp_path, ...)
CanvasPath(d) == temp[d]

\* a handler that forgets the temporary file
RemoveNothing(f, p, rmOk) == f

\* "if os.path.exists(temp_path): os.remove(temp_path)", errors swallowed
RemoveIfExists(f, p, rmOk) ==
  IF p \in DOMAIN f /\ f[p].kind # "absent" /\ rmOk THEN [f EXCEPT ![p] = Absent] ELSE f

\* os.remove was called and raised
RemoveFailed(f, p, rmOk) == p \in DOMAIN f /\ f[p].kind # "absent" /\ ~rmOk

\* what make_pdf_from_images returns: a boolean in img2pdf_v0.41.py only
RetOf(ok) == IF variant = V041 THEN (IF ok THEN "True" ELSE "False") ELSE "None"

\* a name generator that never looks at the directory
AnyName(f, p) == TRUE

\* tempfile.mkstemp opens its candidate name with O_EXCL: the name it
\* returns is one no existing file has
Unused(f, p) == ~(p \in DOMAIN f /\ f[p].kind # "absent")

\* tempfile.mkstemp creates a new, empty file beside the target; it is
\* called before the try block, so its failure leaves process_one_dir
MkStemp(d) ==
  /\ pc[d] = "mk"
  /\ \/ /\ "mkstemp" \in faults
        /\ pc' = [pc EXCEPT ![d] = "finished"]
        /\ outcome' = [outcome EXCEPT ![d] = EscapeOutcome]
        /\ schedPc' = EscapeSched
        /\ UNCHANGED << fs, temp, idx, pages >>
     \/ \E r \in Suffixes :
          /\ Unused(fs, TempPath(d, r))
          /\ fs' = [fs EXCEPT ![TempPath(d, r)] = EmptyFile]
          /\ temp' = [temp EXCEPT ![d] = TempPath(d, r)]
          /\ idx' = [idx EXCEPT ![d] = 1]
          /\ pages' = [pages EXCEPT ![d] = << >>]
          /\ pc' = [pc EXCEPT ![d] = "loop"]
          /\ UNCHANGED << outcome, schedPc >>
  /\ UNCHANGED << cfgVars, tasks, yielded, completed, reports, images, okImgs,
                  pdfaTmp, mkRet, last >>

\* a loop body without a handler of its own
CatchesNothing(v) == FALSE

\* whether the loop body has its own try/except (img2pdf_parallel.py has not)
CatchesPerImage(v) == v # VPar

\* one pass of the loop body, on image idx
ProcessImage(d) ==
  /\ pc[d] = "loop"
  /\ idx[d] <= Len(images[d])
  /\ \E e \in ImageEnvs :
       \E rec \in {PerImage(variant, cv2Avail, tessAvail, images[d][idx[d]], e)} :
           /\ last' = [last EXCEPT ![d] = rec]
           /\ IF rec.ok
              THEN /\ pages' = [pages EXCEPT ![d] = Append(@, rec.img)]
                   /\ okImgs' = [okImgs EXCEPT ![d] = @ \cup {rec.img}]
                   /\ pc' = [pc EXCEPT ![d] = "pass"]
                   /\ UNCHANGED << mkRet, fs >>
              ELSE IF CatchesPerImage(variant)
              THEN /\ pc' = [pc EXCEPT ![d] = "pass"]
                   /\ UNCHANGED << pages, okImgs, mkRet, fs >>
              ELSE \* the error reaches the outer handler of make_pdf_from_images
                   /\ \E rmOk \in MayFail("remove") :
                        /\ fs' = RemoveIfExists(fs, temp[d], rmOk)
                        /\ mkRet' = [mkRet EXCEPT ![d] =
                                       MkEnd(RetOf(FALSE), "image", FALSE,
                                             RemoveFailed(fs, temp[d], rmOk))]
                   /\ pc' = [pc EXCEPT ![d] = "mkdone"]
                   /\ UNCHANGED << pages, okImgs >>
  /\ UNCHANGED << cfgVars, schedVars, images, idx, temp, pdfaTmp, outcome >>

\* the loop header takes the next image; the locals of the pass are dead
NextImage(d) ==
  /\ pc[d] = "pass"
  /\ idx' = [idx EXCEPT ![d] = @ + 1]
  /\ last' = [last EXCEPT ![d] = NoImage]
  /\ pc' = [pc EXCEPT ![d] = "loop"]
  /\ UNCHANGED << cfgVars, schedVars, images, pages, okImgs, temp, pdfaTmp,
                  mkRet, outcome, fs >>

\* the loop is over: c.save() opens the canvas file and starts writing it
SaveBegin(d) ==
  /\ pc[d] = "loop"
  /\ idx[d] > Len(images[d])
  /\ fs' = [fs EXCEPT ![CanvasPath(d)] = Partial]
  /\ pc' = [pc EXCEPT ![d] = "saving"]
  /\ UNCHANGED << cfgVars, schedVars, images, idx, pages, okImgs, temp, pdfaTmp, mkRet,
                  outcome, last >>

\* c.save() completes the document
SaveOk(d) ==
  /\ pc[d] = "saving"
  /\ fs' = [fs EXCEPT ![CanvasPath(d)] = Doc(d, pages[d])]
  /\ pc' = [pc EXCEPT ![d] = "replace"]
  /\ UNCHANGED << cfgVars, schedVars, images, idx, pages, okImgs, temp, pdfaTmp, mkRet,
                  outcome, last >>

\* c.save() raises: the outer handler deletes the temporary file
SaveFail(d) ==
  /\ pc[d] = "saving"
  /\ "save" \in faults
  /\ \E rmOk \in MayFail("remove") :
       /\ fs' = RemoveIfExists(fs, temp[d], rmOk)
       /\ mkRet' = [mkRet EXCEPT ![d] =
                      MkEnd(RetOf(FALSE), "save", FALSE,
                            RemoveFailed(fs, temp[d], rmOk))]
  /\ pc' = [pc EXCEPT ![d] = "mkdone"]
  /\ UNCHANGED << cfgVars, schedVars, images, idx, pages, okImgs, temp, pdfaTmp,
                  outcome, last >>

\* os.replace(temp_path, out_pdf_path) succeeds: one atomic rename
Rename(f, from, to) == [f EXCEPT ![to] = f[from], ![from] = Absent]

ReplaceOk(d) ==
  /\ pc[d] = "replace"
  /\ fs' = Rename(fs, temp[d], TargetOf(d))
  /\ mkRet' = [mkRet EXCEPT ![d] = MkEnd(RetOf(TRUE), "none", FALSE, FALSE)]
  /\ pc' = [pc EXCEPT ![d] = "mkdone"]
  /\ UNCHANGED << cfgVars, schedVars, images, idx, pages, okImgs, temp, pdfaTmp,
                  outcome, last >>

\* whether the variant keeps the temporary file when os.replace raises err
\* ("perm": PermissionError, "os": another OSError)
KeepsTempOnRenameError(v, err) ==
  CASE v = V041 -> err = "perm"
    [] v = VBase -> TRUE
    [] v = V01 -> FALSE
    [] v = VPar -> FALSE

\* whether the variant's message for that error names temp_path
LogsTempOnRenameError(v, err) ==
  CASE v = V041 -> err = "perm"
    [] v = VBase -> TRUE
    [] v = V01 -> FALSE
    [] v = VPar -> FALSE

\* os.replace raises; the target is untouched
ReplaceFail(d) ==
  /\ pc[d] = "replace"
  /\ \E err \in {"perm", "os"}, rmOk \in MayFail("remove") :
       /\ ("rename_" \o err) \in faults
       /\ IF KeepsTempOnRenameError(variant, err)
          THEN rmOk /\ fs' = fs
          ELSE fs' = RemoveIfExists(fs, temp[d], rmOk)
       /\ mkRet' = [mkRet EXCEPT ![d] =
                      MkEnd(RetOf(FALSE), "rename_" \o err,
                            LogsTempOnRenameError(variant, err),
                            ~KeepsTempOnRenameError(variant, err)
                              /\ RemoveFailed(fs, temp[d], rmOk))]
  /\ pc' = [pc EXCEPT ![d] = "mkdone"]
  /\ UNCHANGED << cfgVars, schedVars, images, idx, pages, okImgs, temp, pdfaTmp,
                  outcome, last >>

(***************************************************************************)
(* process_one_dir after make_pdf_from_images, and the PDF/A conversion.   *)
(***************************************************************************)
\* make_pdf_from_images has returned to its caller
AfterMake(d) ==
  /\ pc[d] = "mkdone"
  /\ IF variant # V041
     THEN \* the older scripts ignore how make_pdf_from_images ended
          /\ pc' = [pc EXCEPT ![d] = "finished"]
          /\ outcome' = [outcome EXCEPT ![d] = Returned(TRUE, "None")]
     ELSE IF mkRet[d].ret # "True"
     THEN /\ pc' = [pc EXCEPT ![d] = "finished"]
          /\ outcome' = [outcome EXCEPT ![d] = Returned(FALSE, "make_pdf_failed")]
     ELSE IF doPdfa
     THEN /\ pc' = [pc EXCEPT ![d] = "pdfa_mk"]
          /\ UNCHANGED outcome
     ELSE /\ pc' = [pc EXCEPT ![d] = "finished"]
          /\ outcome' = [outcome EXCEPT ![d] = Returned(TRUE, "None")]
  \* the locals of make_pdf_from_images are gone with its frame
  /\ images' = [images EXCEPT ![d] = << >>]
  /\ idx' = [idx EXCEPT ![d] = 1]
  /\ pages' = [pages EXCEPT ![d] = << >>]
  /\ okImgs' = [okImgs EXCEPT ![d] = {}]
  /\ temp' = [temp EXCEPT ![d] = NoPath]
  /\ mkRet' = [mkRet EXCEPT ![d] = MkPending]
  /\ last' = [last EXCEPT ![d] = NoImage]
  /\ UNCHANGED << cfgVars, schedVars, pdfaTmp, fs >>

\* tempfile.mkstemp for the converted file; a failure is caught by the
\* handler of process_one_dir
PdfaMkStemp(d) ==
  /\ pc[d] = "pdfa_mk"
  /\ \/ /\ "mkstemp" \in faults
        /\ pc' = [pc EXCEPT ![d] = "finished"]
        /\ outcome' = [outcome EXCEPT ![d] = Returned(FALSE, "exception")]
        /\ UNCHANGED << fs, pdfaTmp >>
     \/ \E r \in Suffixes :
          /\ Unused(fs, PdfaPath(d, r))
          /\ fs' = [fs EXCEPT ![PdfaPath(d, r)] = EmptyFile]
          /\ pdfaTmp' = [pdfaTmp EXCEPT ![d] = PdfaPath(d, r)]
          /\ pc' = [pc EXCEPT ![d] = "pdfa_conv"]
          /\ UNCHANGED outcome
  /\ UNCHANGED << cfgVars, schedVars, images, idx, pages, okImgs, temp, mkRet,
                  last >>

\* convert_to_pdfa_ghostscript returns True: Ghostscript wrote the
\* converted copy of the document now at out_pdf
PdfaConvertOk(d) ==
  /\ pc[d] = "pdfa_conv"
  /\ fs' = [fs EXCEPT ![pdfaTmp[d]] = PdfaOf(fs[TargetOf(d)])]
  /\ pc' = [pc EXCEPT ![d] = "pdfa_replace"]
  /\ UNCHANGED << cfgVars, schedVars, images, idx, pages, okImgs, temp, pdfaTmp, mkRet,
                  outcome, last >>

\* convert_to_pdfa_ghostscript fails.  "nogs": Ghostscript is not on PATH;
\* "gserr": it exits non-zero, maybe after writing part of the file; both
\* return False and the caller removes tmp_pdfa.  "raise": subprocess.run
\* raises something else, which the handler of process_one_dir catches.
PdfaConvertFail(d) ==
  /\ pc[d] = "pdfa_conv"
  /\ \E how \in {"nogs", "gserr", "raise"} \cap faults, rmOk \in MayFail("remove") :
       LET written == IF how = "gserr"
                      THEN [fs EXCEPT ![pdfaTmp[d]] = Partial]
                      ELSE fs
       IN  IF how = "raise"
           THEN /\ rmOk
                /\ fs' = written
                /\ outcome' = [outcome EXCEPT ![d] = Returned(FALSE, "exception")]
           ELSE /\ fs' = RemoveIfExists(written, pdfaTmp[d], rmOk)
                /\ outcome' = [outcome EXCEPT ![d] =
                                 Returned(FALSE, "pdfa_convert_failed")]
  /\ pc' = [pc EXCEPT ![d] = "finished"]
  /\ pdfaTmp' = [pdfaTmp EXCEPT ![d] = NoPath]
  /\ UNCHANGED << cfgVars, schedVars, images, idx, pages, okImgs, temp, mkRet,
                  last >>

\* os.replace(tmp_pdfa, out_pdf) succeeds
PdfaReplaceOk(d) ==
  /\ pc[d] = "pdfa_replace"
  /\ fs' = Rename(fs, pdfaTmp[d], TargetOf(d))
  /\ pc' = [pc EXCEPT ![d] = "finished"]
  /\ outcome' = [outcome EXCEPT ![d] = Returned(TRUE, "None")]
  /\ pdfaTmp' = [pdfaTmp EXCEPT ![d] = NoPath]
  /\ UNCHANGED << cfgVars, schedVars, images, idx, pages, okImgs, temp, mkRet,
                  last >>

\* os.replace(tmp_pdfa, out_pdf) raises: tmp_pdfa is left where it is
PdfaReplaceFail(d) ==
  /\ pc[d] = "pdfa_replace"
  /\ "pdfa_replace" \in faults
  /\ pc' = [pc EXCEPT ![d] = "finished"]
  /\ outcome' = [outcome EXCEPT ![d] = Returned(FALSE, "pdfa_replace_failed")]
  /\ pdfaTmp' = [pdfaTmp EXCEPT ![d] = NoPath]
  /\ UNCHANGED << cfgVars, schedVars, images, idx, pages, okImgs, temp, mkRet,
                  fs, last >>

(***************************************************************************)
(* The collecting loop and the end of the run.                             *)
(***************************************************************************)
\* a collector that logs every returned unit as done
ReportAsDone(o) ==
  IF o.state = "raised" THEN [kind |-> "exception", reason |-> o.reason]
  ELSE [kind |-> "ok", reason |-> o.reason]

\* what the loop over as_completed logs for one finished future
ReportOf(o) ==
  IF o.state = "raised" THEN [kind |-> "exception", reason |-> o.reason]
  ELSE IF variant = V041 /\ ~o.ok THEN [kind |-> "failed", reason |-> o.reason]
  ELSE [kind |-> "ok", reason |-> o.reason]

\* a counter that only the result path advances
CountResults(n, o) == IF o.state = "raised" THEN n ELSE n + 1

\* the counter after one more future was handled, on either path
CountUp(n, o) == n + 1

\* as_completed yields a finished future once; the loop body handles it
Collect(d) ==
  /\ variant \in PoolVariants
  /\ schedPc = "running"
  /\ pc[d] = "finished"
  /\ d \notin yielded
  /\ yielded' = yielded \cup {d}
  /\ completed' = CountUp(completed, outcome[d])
  /\ reports' = [reports EXCEPT ![d] = ReportOf(outcome[d])]
  /\ UNCHANGED << cfgVars, schedPc, tasks, workVars, fs, last >>

\* every unit is done: the pool is shut down, main logs the end, exit 0
Finish ==
  /\ schedPc = "running"
  /\ \A d \in SeqRange(tasks) : pc[d] = "finished"
  /\ variant \in PoolVariants => SeqRange(tasks) \subseteq yielded
  /\ schedPc' = "done"
  /\ UNCHANGED << cfgVars, tasks, yielded, completed, reports, workVars, fs,
                  last >>

\* the process tree is killed (power loss, kill -9) at any point of the run:
\* what the processes held in memory is gone, the files stay as they are
Crash ==
  /\ schedPc = "running"
  /\ "kill" \in faults
  /\ schedPc' = "killed"
  /\ tasks' = << >>
  /\ yielded' = {}
  /\ completed' = 0
  /\ reports' = [d \in Dirs |-> NoReport]
  /\ pc' = [d \in Dirs |-> "idle"]
  /\ images' = [d \in Dirs |-> << >>]
  /\ idx' = [d \in Dirs |-> 1]
  /\ pages' = [d \in Dirs |-> << >>]
  /\ okImgs' = [d \in Dirs |-> {}]
  /\ temp' = [d \in Dirs |-> NoPath]
  /\ pdfaTmp' = [d \in Dirs |-> NoPath]
  /\ mkRet' = [d \in Dirs |-> MkPending]
  /\ outcome' = [d \in Dirs |-> NoOutcome]
  /\ last' = [d \in Dirs |-> NoImage]
  /\ UNCHANGED << cfgVars, fs >>

(***************************************************************************)
(* Specifications.                                                         *)
(***************************************************************************)
Work(d) ==
  \/ StartWorker(d)
  \/ MkStemp(d)
  \/ ProcessImage(d)
  \/ NextImage(d)
  \/ SaveBegin(d)
  \/ SaveOk(d)
  \/ SaveFail(d)
  \/ ReplaceOk(d)
  \/ ReplaceFail(d)
  \/ AfterMake(d)
  \/ PdfaMkStemp(d)
  \/ PdfaConvertOk(d)
  \/ PdfaConvertFail(d)
  \/ PdfaReplaceOk(d)
  \/ PdfaReplaceFail(d)
  \/ Collect(d)

\* a run without a kill
Run == Reject \/ Discover \/ Finish \/ \E d \in Dirs : Work(d)

Next == Run \/ Crash

Spec == Init /\ [][Next]_vars

\* The steps of a run in which nothing fails.
WorkDiscover(d) ==
  \/ StartWorker(d)
  \/ MkStemp(d)
  \/ ProcessImage(d)
  \/ NextImage(d)
  \/ SaveBegin(d)
  \/ SaveOk(d)
  \/ ReplaceOk(d)
  \/ AfterMake(d)
  \/ Collect(d)

NextDiscover == Discover \/ Finish \/ \E d \in Dirs : WorkDiscover(d)

SpecDiscover == InitDiscover /\ [][NextDiscover]_vars

\* discovery and the first pass of the image loop
NextCascade ==
  Discover \/ \E d \in Dirs : StartWorker(d) \/ MkStemp(d) \/ ProcessImage(d)

SpecCascade == InitCascade /\ [][NextCascade]_vars

\* discovery and the image loop of each directory
NextLayout ==
  \/ Discover
  \/ \E d \in Dirs : StartWorker(d) \/ MkStemp(d) \/ ProcessImage(d) \/ NextImage(d)

SpecLayout == InitLayout /\ [][NextLayout]_vars

\* discovery and the gathering of each directory's images
NextSort == Discover \/ \E d \in Dirs : StartWorker(d)

SpecSort == InitSort /\ [][NextSort]_vars

\* The steps of the pool scripts on a run in which c.save(), Ghostscript
\* and the second rename do their work and nobody kills the run.
WorkPool(d) ==
  \/ StartWorker(d)
  \/ MkStemp(d)
  \/ ProcessImage(d)
  \/ NextImage(d)
  \/ SaveBegin(d)
  \/ SaveOk(d)
  \/ ReplaceOk(d)
  \/ ReplaceFail(d)
  \/ AfterMake(d)
  \/ PdfaMkStemp(d)
  \/ PdfaConvertOk(d)
  \/ PdfaReplaceOk(d)
  \/ Collect(d)

NextPool == Discover \/ Finish \/ \E d \in Dirs : WorkPool(d)

\* the pool keeps executing what it was given and as_completed keeps
\* yielding what has finished
LivePool == InitPool /\ [][NextPool]_vars /\ WF_vars(NextPool)

(***************************************************************************)
(* Properties of the assembler (specification Spec).                       *)
(***************************************************************************)
\* the content the target had before the run
Original == IF hadPrior THEN Prior ELSE Absent

\* a complete, finalized document: what c.save() or Ghostscript completed
Finalized(f) == f.kind = "doc" /\ f.unit \in Dirs

\* a step is the rename of worker d's file `from` onto target t
IsRenameOnto(d, from, t) ==
  /\ t = TargetOf(d)
  /\ from \in DOMAIN fs
  /\ fs'[t] = fs[from]
  /\ fs'[from] = Absent

\* C1: with a pre-existing target, the target path holds at every moment
\* (also after a failure or a kill at any step, and through the PDF/A
\* conversion) either the prior version or a complete finalized document,
\* and the only steps that change a target are the os.replace renames
C1_TargetAlwaysWhole ==
  /\ [](hadPrior => \A t \in Targets : fs[t] = Prior \/ Finalized(fs[t]))
  /\ [][\A t \in Targets :
          fs'[t] # fs[t] =>
            \E d \in Dirs :
              \/ pc[d] = "replace" /\ IsRenameOnto(d, temp[d], t)
              \/ pc[d] = "pdfa_replace" /\ IsRenameOnto(d, pdfaTmp[d], t)]_vars

\* C1 witness: the run was killed while c.save() was writing; the partial
\* file is the temporary one and the prior target is intact
C1_KilledMidSave ==
  /\ schedPc = "killed"
  /\ hadPrior
  /\ fs[TargetOf("d1")] = Prior
  /\ \E r \in Suffixes : fs[TempPath("d1", r)] = Partial

\* C2: whenever os.replace raised PermissionError, make_pdf_from_images
\* returns with the temporary file still on disk, the target as it was, and
\* a failure report that names the temporary file (in every script variant)
C2_LockedTargetKeepsTemp ==
  \A d \in Dirs :
    (pc[d] = "mkdone" /\ mkRet[d].cause = "rename_perm") =>
      /\ Exists(temp[d])
      /\ fs[TargetOf(d)] = Original
      /\ mkRet[d].ret # "True"
      /\ mkRet[d].loggedTemp

\* the images of worker d, in input order, whose pass succeeded
Succeeded(d) == SelectSeq(images[d], LAMBDA n : n \in okImgs[d])

\* C3: a failing image is skipped and nothing else: whenever
\* make_pdf_from_images has returned and neither c.save() nor os.replace
\* failed, the target holds the document whose pages are exactly the
\* successfully processed images in input order (in every script variant)
C3_FailedImageOnlySkipped ==
  \A d \in Dirs :
    (pc[d] = "mkdone" /\ mkRet[d].cause \notin {"save", "rename_perm", "rename_os"}) =>
      fs[TargetOf(d)] = Doc(d, Succeeded(d))

\* C4: for an image whose EXIF tag is 3, 6 or 8, every detection stage that
\* ran read the pixels turned by the EXIF correction
C4_DetectionOnCorrectedPixels ==
  \A d \in Dirs :
    last[d].tag \in {3, 6, 8} =>
      /\ last[d].visPix \in {None, Some(ExifAngle(last[d].tag))}
      /\ last[d].ocrPix \in {None, Some(ExifAngle(last[d].tag))}

\* C5: the rotation applied to an image is one of 0, 90, 180, 270, and it
\* is 0 whenever the OCR service reported a value that is no multiple of 90
C5_AppliedAngleIsQuarterTurn ==
  \A d \in Dirs :
    /\ last[d].rot \in {0, 90, 180, 270}
    /\ (last[d].ocrVal # None /\ last[d].ocrVal[1] % 90 # 0) => last[d].rot = 0

\* C5 witness: the OCR service reported 405 for an image that was then drawn
\* unrotated
C5_OddAngleSeen ==
  /\ last["d1"].ok
  /\ last["d1"].ocrVal = Some(405)
  /\ last["d1"].rot = 0

\* a refused publish rename
RenameRefused(d) == mkRet[d].cause \in {"rename_perm", "rename_os"}

NoDuplicates(q) == \A i, j \in DOMAIN q : i # j => q[i] # q[j]

\* C6: in the parallel scheduler every discovered unit is submitted exactly
\* once; each unit gets its one report, which for a worker that raised or
\* failed is a failure report for that unit; a step that ends one unit
\* leaves every other unit's position and outcome as they were; and every
\* run ends with all units collected and the counter at the total
C6_EveryUnitCollectedOnce ==
  /\ [](schedPc # "init" =>
          /\ NoDuplicates(tasks)
          /\ SeqRange(tasks) = {d \in Dirs : HasImages(d)}
          /\ completed = Cardinality(yielded)
          /\ \A d \in Dirs : reports[d] # NoReport <=> d \in yielded
          /\ \A d \in yielded :
               /\ reports[d] = ReportOf(outcome[d])
               /\ outcome[d].state = "raised" => reports[d].kind = "exception"
               /\ (variant = V041 /\ ~outcome[d].ok) => reports[d].kind = "failed")
  /\ [][\A d \in Dirs :
          /\ reports'[d] # reports[d] => reports[d] = NoReport
          /\ outcome'[d] # outcome[d] =>
               \A e \in Dirs \ {d} : outcome'[e] = outcome[e] /\ pc'[e] = pc[e]]_vars
  /\ <>(/\ schedPc = "done"
        /\ yielded = SeqRange(tasks)
        /\ completed = Len(tasks))

\* C6 witness: a run of three units is over, the first unit's worker raised
\* or failed and was reported so, another unit was reported done
C6_FailureBesideSuccess ==
  /\ schedPc = "done"
  /\ Len(tasks) = Cardinality(Dirs)
  /\ completed = Len(tasks)
  /\ reports["d1"].kind \in {"exception", "failed"}
  /\ reports["d2"].kind = "ok"
  /\ outcome["d2"].ok

\* the paths a dispatched unit's worker writes: the temporary files it
\* holds (from their creation until it renames, deletes or abandons them),
\* and its output target once it works on it
Held(d) ==
  (IF pc[d] \in {"loop", "pass", "saving", "replace"} THEN {temp[d]} ELSE {})
    \cup (IF pc[d] \in {"pdfa_conv", "pdfa_replace"} THEN {pdfaTmp[d]} ELSE {})
Started(d) == pc[d] \notin {"idle", "queued"}
WrittenPaths(d) == Held(d) \cup (IF Started(d) THEN {TargetOf(d)} ELSE {})

\* C7 as claimed: the paths written by two distinct dispatched units are
\* disjoint, with or without an output root
C7_WrittenPathsDisjoint ==
  \A d, e \in SeqRange(tasks) :
    d # e => WrittenPaths(d) \cap WrittenPaths(e) = {}

\* C7 as amended: two distinct units never hold the same temporary file at
\* the same time,
\* neither holds the other's target, and their targets differ unless an
\* output root is given and the two directories have the same basename
C7_DisjointUnlessSameBasename ==
  \A d, e \in SeqRange(tasks) :
    d # e =>
      /\ Held(d) \cap Held(e) = {}
      /\ TargetOf(e) \notin Held(d)
      /\ TargetOf(d) = TargetOf(e) => (outRoot /\ Basename(d) = Basename(e))

\* C7 witness: two workers hold temporary files in the same output
\* directory, made from the same basename
C7_TwoTempsSameStem ==
  /\ outRoot
  /\ temp["d1"] # NoPath
  /\ temp["d2"] # NoPath
  /\ temp["d1"].dir = temp["d2"].dir
  /\ temp["d1"].base = temp["d2"].base
  /\ temp["d1"] # temp["d2"]
  /\ pc["d1"] = "replace"
  /\ pc["d2"] = "replace"

(***************************************************************************)
(* Properties of the ordering (specification SpecSort).                    *)
(***************************************************************************)
Sorted(q, Less(_, _)) == \A i, j \in DOMAIN q : i < j => ~Less(q[j], q[i])

\* C9: in every script variant the images gathered for a unit are in
\* natural order, digit runs compared as integers (img1.jpg, img2.jpg,
\* img10.jpg)
C9_GatheredInNaturalOrder ==
  \A d \in Dirs : pc[d] = "mk" => Sorted(images[d], NaturalLess)

\* all orders in which the filesystem may list the names of q
Relistings(q) ==
  {p \in [DOMAIN q -> SeqRange(q)] : SeqRange(p) = SeqRange(q)}

\* C10: under natural_key any two distinct file names are strictly ordered
\* one way or the other, so the order img2pdf_v0.41.py gathers a directory
\* in is the same for every listing order
C10_NaturalOrderTotal ==
  \A d \in Dirs :
    (variant = V041 /\ pc[d] = "mk") =>
      /\ \A i, j \in DOMAIN images[d] :
           i # j => \/ NaturalLess(images[d][i], images[d][j])
                    \/ NaturalLess(images[d][j], images[d][i])
      /\ \A p \in Relistings(listing[d]) :
           gather_image_files_in_dir(variant, p) = images[d]

(***************************************************************************)
(* Properties of discovery (specification SpecDiscover).                   *)
(***************************************************************************)
\* character c is letter x of an extension, in either case
SameLetter(c, x) ==
  c = x \/ << c, x >> \in {<< "J", "j" >>, << "P", "p" >>, << "G", "g" >>}

\* the name ends in extension ext, letters compared without case
MatchesExt(name, ext) ==
  /\ Len(name) >= Len(ext)
  /\ \A i \in 1..Len(ext) : SameLetter(name[Len(name) - Len(ext) + i], ext[i])

\* directory d directly holds a regular file whose name ends in a supported
\* extension, in any letter case
Qualifies(d) ==
  \E i \in DOMAIN listing[d] :
    /\ listing[d][i] \notin nonFiles[d]
    /\ MatchesExt(listing[d][i], ExtJpg) \/ MatchesExt(listing[d][i], ExtJpeg)

\* d2 lies below d1 in the source tree
Below(d, e) == d = "d2" /\ e = "d1"

\* C11: once discovery is done, the work units are exactly the directories
\* that directly hold an image file (extension compared without case),
\* whatever their ancestors and descendants hold; a directory without one
\* gets no unit, no worker, no temporary or output file and no outcome
C11_UnitIffDirectImage ==
  schedPc \in {"running", "done", "aborted"} =>
    \A d \in Dirs :
      /\ d \in SeqRange(tasks) <=> Qualifies(d)
      /\ ~Qualifies(d) =>
           /\ pc[d] = "idle"
           /\ temp[d] = NoPath
           /\ pdfaTmp[d] = NoPath
           /\ outcome[d] = NoOutcome
           /\ reports[d] = NoReport
           /\ ~outRoot => \A p \in PathsOfDir(d) : fs[p] = Absent
           /\ schedPc # "aborted"

\* C11 witness: the run is over; a directory and the directory below it
\* both were units and got their documents, the third held only a
\* subdirectory named like an image and got nothing
C11_NestedUnitsAndNone ==
  /\ schedPc = "done"
  /\ ~outRoot
  /\ Below("d2", "d1")
  /\ tasks = << "d1", "d2" >>
  /\ fs[TargetOf("d1")].kind = "doc"
  /\ fs[TargetOf("d2")].kind = "doc"
  /\ listing["d3"] # << >>
  /\ nonFiles["d3"] # {}
  /\ \A p \in PathsOfDir("d3") : fs[p] = Absent

\* the output path the naming rule gives unit d: <basename>.pdf, directly
\* in the output root when one is given, else in the source directory
FlatTarget(d) ==
  [dir |-> IF outRoot THEN << "out" >> ELSE << "src", d >>,
   base |-> Basename(d), kind |-> "pdf", r |-> 0]

\* C12: in every script variant a unit that finished well has its document
\* at <basename>.pdf, directly in the output root when one is given, and
\* with an output root nothing is written anywhere else
C12_OutputNamedFlat ==
  /\ \A d \in Dirs :
       (pc[d] = "finished" /\ outcome[d].ok) =>
         /\ FlatTarget(d) \in DOMAIN fs
         /\ fs[FlatTarget(d)].kind = "doc"
  /\ outRoot => \A p \in Paths : Exists(p) => p.dir = << "out" >>

(***************************************************************************)
(* Page layout.                                                            *)
(***************************************************************************)
\* the page plans of the images drawn in the current pass
Drawn == {last[d].plan : d \in {e \in Dirs : last[e].ok}}

Dist(a, b) == IF a < b THEN b - a ELSE a - b

\* the orientation rule, which involves no arithmetic
OrientedByShape(p) ==
  /\ p.w > 0 /\ p.h > 0
  /\ p.landscape <=> p.w > p.h
  /\ << p.page_w, p.page_h >> = IF p.w > p.h THEN << A4[2], A4[1] >> ELSE A4
  /\ p.page_w > 0 /\ p.page_h > 0

\* C13 as stated: landscape exactly when width > height, and the drawn
\* rectangle keeps the aspect ratio, lies inside the page with non-negative
\* offsets, is centred on both axes and fills the page exactly along an axis.
C13_PlanExact ==
  \A p \in Drawn :
    /\ OrientedByShape(p)
    /\ p.scale * p.w = p.page_w \/ p.scale * p.h = p.page_h
    /\ p.scale * p.w <= p.page_w /\ p.scale * p.h <= p.page_h
    /\ p.new_w = p.w * p.scale /\ p.new_h = p.h * p.scale
    /\ p.x >= 0 /\ p.y >= 0
    /\ p.x + p.new_w <= p.page_w /\ p.y + p.new_h <= p.page_h
    /\ 2 * p.x + p.new_w = p.page_w /\ 2 * p.y + p.new_h = p.page_h
    /\ p.new_w = p.page_w \/ p.new_h = p.page_h

\* C13, amended: the orientation rule holds exactly; the drawn size is the
\* image size times the scale, the rectangle lies inside the page, is centred
\* and fills the page along an axis, each up to the rounding of the floating-
\* point operations (one unit in the last place of the page dimension).
C13_PlanWithinRounding ==
  \A p \in Drawn :
    LET uw == Ulp(p.page_w, 1)
        uh == Ulp(p.page_h, 1)
    IN  /\ OrientedByShape(p)
        /\ 2 * Dist(p.new_w, p.w * p.scale) <= uw
        /\ 2 * Dist(p.new_h, p.h * p.scale) <= uh
        /\ p.new_w <= p.page_w + uw /\ p.new_h <= p.page_h + uh
        /\ 2 * p.x >= 0 - uw /\ 2 * p.y >= 0 - uh
        /\ p.x + p.new_w <= p.page_w + uw /\ p.y + p.new_h <= p.page_h + uh
        /\ Dist(2 * p.x + p.new_w, p.page_w) <= uw
        /\ Dist(2 * p.y + p.new_h, p.page_h) <= uh
        /\ Dist(p.new_w, p.page_w) <= uw \/ Dist(p.new_h, p.page_h) <= uh

\* a drawn rectangle that is taller than its page, at a negative offset
C13_RoundedPastEdge ==
  \E p \in Drawn : p.new_h > p.page_h /\ p.y < 0 /\ p.new_w < p.page_w

\* the two passes of the worked example under img2pdf_v0.41.py with OpenCV
FirstOfExample(r) ==
  /\ variant = V041 /\ r.ok /\ r.img = LayoutNames[1]
  /\ r.size = WideSize /\ r.tag = 0 /\ r.visOut = Some(0)

SecondOfExample(r) ==
  /\ variant = V041 /\ r.ok /\ r.img = LayoutNames[2]
  /\ r.size = TallSize /\ r.tag = 6 /\ r.total = 90

\* C14 as stated: a.jpg (1000x700, no EXIF, vision decides 0) and b.jpg
\* (700x1000, EXIF tag 6) give two pages in that order; page 1 is landscape
\* with a.jpg filling the page width, page 2 is portrait with b.jpg rotated
\* 90 degrees clockwise before layout.
C14_SecondPagePortrait ==
  \A d \in Dirs :
    /\ FirstOfExample(last[d]) =>
         /\ pages[d] = << LayoutNames[1] >>
         /\ last[d].total = 0
         /\ last[d].plan.landscape /\ last[d].plan.new_w = last[d].plan.page_w
    /\ SecondOfExample(last[d]) =>
         /\ pages[d] = LayoutNames
         /\ ~last[d].plan.landscape

\* C14, amended: the two pages come in that order; page 1 is landscape with
\* a.jpg filling the page width; b.jpg is rotated 90 degrees clockwise before
\* layout, which makes it 1000x700, so page 2 is landscape as well and b.jpg
\* fills its width.
C14_SecondPageLandscape ==
  \A d \in Dirs :
    /\ FirstOfExample(last[d]) =>
         /\ pages[d] = << LayoutNames[1] >>
         /\ last[d].total = 0
         /\ last[d].plan.landscape /\ last[d].plan.new_w = last[d].plan.page_w
    /\ SecondOfExample(last[d]) =>
         /\ pages[d] = LayoutNames
         /\ << last[d].plan.w, last[d].plan.h >> = WideSize
         /\ last[d].plan.landscape /\ last[d].plan.new_w = last[d].plan.page_w

\* b.jpg of the example was drawn as the second page
C14_SecondPageDrawn ==
  \E d \in Dirs : SecondOfExample(last[d]) /\ pages[d] = LayoutNames /\ cv2Avail

(***************************************************************************)
(* The archival conversion.                                                *)
(***************************************************************************)
PdfaFailures == {"pdfa_convert_failed", "pdfa_replace_failed"}

\* the step in which the conversion of unit d fails
PdfaFails(d) ==
  /\ pc[d] \in {"pdfa_conv", "pdfa_replace"}
  /\ pc'[d] = "finished"
  /\ outcome'[d].reason \in PdfaFailures

\* the failing step keeps the published document and returns a failure
KeepsPublished(d) ==
  /\ fs[TargetOf(d)].kind = "doc" /\ ~fs[TargetOf(d)].pdfa
  /\ fs'[TargetOf(d)] = fs[TargetOf(d)]
  /\ ~outcome'[d].ok

\* the collector reports the failed conversion as a failure of that unit
PdfaFailureReported ==
  \A d \in Dirs :
    (reports[d] # NoReport /\ outcome[d].reason \in PdfaFailures) =>
      reports[d] = [kind |-> "failed", reason |-> outcome[d].reason]

Untouched ==
  /\ tasks = << >>
  /\ \A d \in Dirs : pc[d] = "idle" /\ outcome[d] = NoOutcome
  /\ fs = [p \in Paths |-> IF p \in Targets /\ hadPrior THEN Prior ELSE Absent]

\* C16 as stated: an invalid source directory ends the run with a non-zero
\* status before any discovery or processing; otherwise the run ends
\* normally with status 0 whatever the units did: a unit's failure is never
\* escalated into the exit status or into an early abort.
C16_UnitFailureNeverEndsRun ==
  /\ ~srcIsDir => schedPc \in {"init", "rejected"} /\ Untouched
  /\ schedPc = "rejected" => ~srcIsDir /\ ExitStatus \notin {None, Some(0)}
  /\ srcIsDir => /\ schedPc \in {"init", "running", "done", "killed"}
                 /\ ExitStatus \in {None, Some(0)}

(***************************************************************************)
(* The orientation cascade of img2pdf_v0.41.py.                            *)
(***************************************************************************)
\* the passes of img2pdf_v0.41.py that opened their image
Cascades == {last[d] : d \in {e \in Dirs : variant = V041 /\ last[e].opened}}

\* the vision stage has no answer: no backend, or nothing to decide on
Abstains(r) == ~cv2Avail \/ r.vis.k \in {"undecodable", "nolines", "error"}

\* C17: the OCR stage is consulted if and only if the vision stage abstains;
\* a vision decision, 0 degrees included, is applied without consulting OCR;
\* after an abstention an unavailable or failing OCR service resolves to 0.
C17_OcrIffVisionAbstains ==
  \A r \in Cascades :
    /\ Abstains(r) <=> r.visOut = None
    /\ r.ocrPix # None => Abstains(r)
    /\ (Abstains(r) /\ tessAvail) => r.ocrPix # None
    /\ ~Abstains(r) => r.rot = r.visOut[1] /\ r.ocrPix = None /\ r.ocrVal = None
    /\ (Abstains(r) /\ (~tessAvail \/ r.ocrVal = None)) => r.rot = 0

\* the vision stage decided 0 degrees while the OCR service was at hand,
\* and OCR was not consulted
C17_ZeroDecidedOcrIdle ==
  \E r \in Cascades :
    /\ cv2Avail /\ tessAvail /\ r.vis.k = "median"
    /\ r.visOut = Some(0) /\ r.ocrPix = None /\ r.rot = 0

\* C18: once a line segment exists the vision decision is a total function of
\* the median angle m in (-90, 90]: 0 when |m| < 30, 90 when m > 30, 270 when
\* m < -30, 0 when |m| = 30; it is never 180 and never an abstention.
C18_DecisionTotalOnMedian ==
  \A r \in Cascades :
    (cv2Avail /\ r.vis.k = "median") =>
      /\ -90 < r.vis.m /\ r.vis.m <= 90
      /\ r.visOut # None
      /\ r.visOut[1] # 180
      /\ Abs(r.vis.m) < 30 => r.visOut[1] = 0
      /\ r.vis.m > 30 => r.visOut[1] = 90
      /\ r.vis.m < -30 => r.visOut[1] = 270
      /\ Abs(r.vis.m) = 30 => r.visOut[1] = 0

\* a median of exactly 30 or -30 degrees was decided as 0
C18_BoundaryMedianSeen ==
  \E r \in Cascades :
    cv2Avail /\ r.vis.k = "median" /\ Abs(r.vis.m) = 30 /\ r.visOut = Some(0)

(***************************************************************************)
(* Two units of the same basename under one output root.                   *)
(***************************************************************************)
\* d1 and d2 have the same basename; both were dispatched into one output root
Colliding ==
  /\ outRoot
  /\ {"d1", "d2"} \subseteq SeqRange(tasks)
  /\ TargetOf("d1") = TargetOf("d2")

\* the complete document of unit d, converted or not
WholeDocOf(f, d) ==
  /\ f.kind = "doc"
  /\ f.unit = d
  /\ f.pages = gather_image_files_in_dir(variant, RegularFiles(d))

\* C19: two units of the same basename written to one output root and run
\* concurrently hold distinct temporary files under every interleaving, with
\* and without archival conversion, and once both have finished the target
\* holds the complete document of exactly one of them, never a mixture or
\* a truncated file (img2pdf_v0.41.py tells whether a unit published).
C19_CollidingUnitsOneWholeDoc ==
  Colliding =>
    LET f == fs[TargetOf("d1")]
    IN  /\ Held("d1") \cap Held("d2") = {}
        /\ f.kind \in {"absent", "doc"}
        /\ f.kind = "doc" => WholeDocOf(f, "d1") \/ WholeDocOf(f, "d2")
        /\ (/\ pc["d1"] = "finished" /\ pc["d2"] = "finished"
            /\ variant = V041
            /\ outcome["d1"].ok \/ outcome["d2"].ok)
           => f.kind = "doc" /\ (WholeDocOf(f, "d1") # WholeDocOf(f, "d2"))

\* both units succeeded with archival conversion, and the unit dispatched
\* first published last
C19_FirstUnitWonLate ==
  /\ Colliding
  /\ schedPc = "done"
  /\ doPdfa
  /\ outcome["d1"].ok /\ outcome["d2"].ok
  /\ WholeDocOf(fs[TargetOf("d1")], "d1")
  /\ fs[TargetOf("d1")].pdfa

(***************************************************************************)
(* What make_pdf_from_images of img2pdf_v0.41.py returns.                  *)
(***************************************************************************)
\* C20: the value make_pdf_from_images returns depends only on whether
\* c.save() and the publishing rename succeeded, not on how many images were
\* skipped: when both succeed it replaces the target and returns success,
\* also when some or all images failed (the target then holds a document
\* with none of the failed images).
C20_OutcomeIgnoresSkips ==
  \A d \in Dirs :
    (variant = V041 /\ pc[d] = "mkdone") =>
      /\ mkRet[d].cause \in {"none", "save", "rename_perm", "rename_os"}
      /\ mkRet[d].ret = "True" <=> mkRet[d].cause = "none"
      /\ mkRet[d].ret \in {"True", "False"}
      /\ mkRet[d].cause = "none" => fs[TargetOf(d)] = Doc(d, Succeeded(d))

\* every image of the unit failed, and the prior target was replaced by a
\* document without pages, with success returned
C20_AllFailedStillPublished ==
  \E d \in Dirs :
    /\ variant = V041 /\ hadPrior /\ pc[d] = "mkdone"
    /\ Len(images[d]) = MaxImages /\ okImgs[d] = {}
    /\ mkRet[d].ret = "True"
    /\ fs[TargetOf(d)] = Doc(d, << >>)
====
